---- MODULE Spec2Model ----
(***************************************************************************)
(* Model of src/src/npc_ephys/newscale.py: get_newscale_coordinates (the   *)
(* coordinate resolver), get_z_travel (the device registry lookup) and     *)
(* is_z_inverted (the axis inversion detector).                            *)
(*                                                                         *)
(* Representation.                                                         *)
(*  - A text cell of the log is a sequence of tokens: the token " " is one *)
(*    whitespace character, any other token is a run of non-blank          *)
(*    characters (a serial number, a numeral, or junk).                    *)
(*    <<" ", "SN32148">> is the text " SN32148", <<" ", "2000">> the text  *)
(*    " 2000", and <<" ", "abc">> a text that is no number.                *)
(*  - A timestamp is an integer count of instants, DayLen of them to a     *)
(*    calendar day, so its date is the quotient by DayLen.                 *)
(*  - The log is the table read by get_newscale_data, restricted to the    *)
(*    five columns the resolver keeps (it drops the three virtual ones at  *)
(*    line 143).                                                           *)
(***************************************************************************)
EXTENDS Integers, Sequences, FiniteSets, TLC

VARIABLES
    pc,          \* position in the code: the step to run next
    ret,         \* where is_z_inverted returns to
    log,         \* argument: the movement log (sequence of events)
    start,       \* argument: recording_start_time (start.dt)
    sn,          \* detector runs: a serial number whose travel class the readings have
    z_values,    \* argument of is_z_inverted (recent_z_values in the resolver)
    z_inverted,  \* result of is_z_inverted
    df,          \* the resolver's working table, finally the returned table
    probes,      \* the electrode_group_name column built at lines 157-159
    exc          \* the exception raised, "none" while there is none

vars == <<pc, ret, log, start, sn, z_values, z_inverted, df, probes, exc>>

(***************************************************************************)
(* Bounds of the model.                                                    *)
(***************************************************************************)
MaxLen == 2        \* events in a log of the general family
MaxCapLen == 7     \* events (one per device) in a log of the many-device family
MaxReadings == 4   \* readings handed to is_z_inverted when it is called directly

DayLen == 2        \* instants per calendar day

(***************************************************************************)
(* Program constants.                                                      *)
(***************************************************************************)
SHORT_TRAVEL_RANGE == 6000
LONG_TRAVEL_RANGE == 15000

SERIAL_NUM_TO_PROBE_LETTER ==
    [s \in {"SN32148", "SN40911", "SN45356", "SN40906"} |-> "A"] @@
    [s \in {"SN32142", "SN40900", "SN45484", "SN40908"} |-> "B"] @@
    [s \in {"SN32144", "SN40912", "SN45485", "SN40907"} |-> "C"] @@
    [s \in {"SN32149", "SN24272", "SN40913", "SN45359", "SN41084"} |-> "D"] @@
    [s \in {"SN32135", "SN40914", "SN45482", "SN40903"} |-> "E"] @@
    [s \in {"SN24273", "SN40910", "SN45361", "SN40902"} |-> "F"]

SHORT_TRAVEL_SERIAL_NUMBERS ==
    {"SN32148", "SN32142", "SN32144", "SN32149", "SN32135", "SN24273"}

\* top_k(6, by=movement), line 146
TopKRows == 6

\* datetime.timedelta(hours=24), line 136
WindowHours == 24

(***************************************************************************)
(* Text and number helpers.                                                *)
(***************************************************************************)
RECURSIVE LStrip(_)
LStrip(s) == IF s # <<>> /\ Head(s) = " " THEN LStrip(Tail(s)) ELSE s

RECURSIVE RStrip(_)
RStrip(s) ==
    IF s # <<>> /\ s[Len(s)] = " " THEN RStrip(SubSeq(s, 1, Len(s) - 1)) ELSE s

\* polars Series.str.strip_chars(): drop leading and trailing whitespace
StripChars(s) == RStrip(LStrip(s))

\* the numerals of the model and the numbers they parse to
NumeralValue ==
    ("0" :> 0) @@ ("1" :> 1) @@ ("2" :> 2) @@ ("3" :> 3) @@ ("4" :> 4) @@
    ("5" :> 5) @@ ("6" :> 6) @@ ("7" :> 7) @@ ("8" :> 8) @@ ("9" :> 9) @@
    ("10" :> 10) @@ ("11" :> 11) @@ ("12" :> 12) @@ ("13" :> 13) @@
    ("14" :> 14) @@ ("15" :> 15) @@ ("16" :> 16) @@ ("17" :> 17) @@
    ("18" :> 18) @@ ("19" :> 19) @@ ("20" :> 20) @@ ("2000" :> 2000) @@
    ("6000" :> 6000) @@ ("15000" :> 15000)

\* whether .cast(pl.Float32 / pl.Float64) accepts the (already stripped) text
IsNumeric(s) == Len(s) = 1 /\ s[1] \in DOMAIN NumeralValue

\* the value .cast(...) gives for a numeric text
Cast(s) == NumeralValue[s[1]]

\* a text that is one serial number, as the registry's keys are
IsKey(s) == Len(s) = 1 /\ s[1] \in DOMAIN SERIAL_NUM_TO_PROBE_LETTER

\* datetime.date() of a timestamp
DateOf(t) == t \div DayLen

\* date - datetime.timedelta(hours=h): a date moves by the timedelta's whole days
DateMinusHours(d, h) == d - (h \div 24)

\* astype("str") of a timestamp column cell, line 181
AsStr(t) == <<"str", t>>

Max(S) == CHOOSE m \in S : \A o \in S : o <= m

(***************************************************************************)
(* get_z_travel, lines 185-198: whether it raises ValueError, and the      *)
(* value it returns when it does not.                                      *)
(***************************************************************************)
get_z_travel_raises(serial_number) == ~IsKey(serial_number)

get_z_travel_long_only(serial_number) == LONG_TRAVEL_RANGE

get_z_travel(serial_number) ==
    IF serial_number[1] \in SHORT_TRAVEL_SERIAL_NUMBERS THEN SHORT_TRAVEL_RANGE
    ELSE LONG_TRAVEL_RANGE

(***************************************************************************)
(* is_z_inverted, lines 201-219.                                           *)
(***************************************************************************)
\* np.round(v, -2) on a non-negative whole reading: divide by 100, round half
\* to even, multiply by 100
Round100(v) ==
    LET q == v \div 100
        r == v % 100
    IN  IF r < 50 THEN q * 100
        ELSE IF r > 50 THEN (q + 1) * 100
        ELSE IF q % 2 = 0 THEN q * 100
        ELSE (q + 1) * 100

\* collections.Counter(rounded)[key]
Counter(zs, key) == Cardinality({i \in DOMAIN zs : Round100(zs[i]) = key})

is_z_inverted_ties_inverted(zs) ==
    LET is_long_travel == Counter(zs, LONG_TRAVEL_RANGE) # 0
        travel_range == IF is_long_travel THEN LONG_TRAVEL_RANGE ELSE SHORT_TRAVEL_RANGE
    IN  Counter(zs, 0) <= Counter(zs, travel_range)

is_z_inverted(zs) ==
    LET is_long_travel == Counter(zs, LONG_TRAVEL_RANGE) # 0
        travel_range == IF is_long_travel THEN LONG_TRAVEL_RANGE ELSE SHORT_TRAVEL_RANGE
    IN  Counter(zs, 0) < Counter(zs, travel_range)

\* the axis correction of one reading, line 165
CorrectZ_unchanged(z, device) == z

CorrectZ(z, device) == get_z_travel(device) - z

(***************************************************************************)
(* Inputs.                                                                 *)
(***************************************************************************)
\* the instant tod of day day
T(day, tod) == day * DayLen + tod

\* recording_start_time: the second instant of day 2
StartTimes == {T(2, 1)}

\* two days before the reference date, the day before, the reference date
\* (before the reference time, and at it), and the day after
Times == {T(0, 0), T(1, 0), T(2, 0), T(2, 1), T(3, 0)}

\* a short-travel probe A with and without the leading blank, a long-travel
\* probe A and probe B, and a serial number the registry does not hold
DeviceTexts ==
    {<<" ", "SN32148">>, <<"SN32148">>, <<" ", "SN40911">>, <<" ", "SN40900">>,
     <<" ", "SN99999">>}

ZTexts == {<<" ", "2000">>, <<" ", "15000">>, <<" ", "abc">>}

\* the numeral of a small number
Numeral(n) == CHOOSE t \in DOMAIN NumeralValue : NumeralValue[t] = n

\* what may vary in an event of a log
EventChoices == [last_movement_dt : Times, device_name : DeviceTexts, z : ZTexts]

\* the i-th event of a log: its x (i) and y (10 + i) tell the events of a log
\* apart
Event(c, i) ==
    [last_movement_dt |-> c.last_movement_dt, device_name |-> c.device_name,
     x |-> <<" ", Numeral(i)>>, y |-> <<" ", Numeral(10 + i), " ">>, z |-> c.z]

\* logs with more devices than top_k keeps: the i-th event is of the i-th of these
\* devices, at a time before the reference time
CapDevices ==
    <<"SN40911", "SN40900", "SN40912", "SN40913", "SN40914", "SN40910",
      "SN32148", "SN32142", "SN32144", "SN32149">>

CapTimes == {T(0, 0), T(1, 0), T(2, 0)}

\* the z of every event of such a log: one text for the whole log
CapZTexts == {<<" ", "2000">>, <<" ", "15000">>}

CapEvent(t, z, i) ==
    [last_movement_dt |-> t, device_name |-> <<" ", CapDevices[i]>>,
     x |-> <<" ", Numeral(i)>>, y |-> <<" ", Numeral(10 + i), " ">>, z |-> z]

\* readings for a direct call of is_z_inverted
Readings == {0, 50, 2000, 5950, 6000, 9000, 14960, 15000}

\* one short-travel and one long-travel device
ClassSerials == {<<"SN32148">>, <<"SN40911">>}

(***************************************************************************)
(* Init: a call of get_newscale_coordinates(log, start), or a direct call  *)
(* of is_z_inverted(z_values).                                             *)
(***************************************************************************)
Idle ==
    /\ z_values = <<>>
    /\ z_inverted = FALSE
    /\ df = <<>>
    /\ probes = <<>>
    /\ exc = "none"

\* get_newscale_coordinates on a log of at most MaxLen events
InitResolve ==
    /\ pc = "coverage"
    /\ ret = "select"
    /\ \E n \in 0..MaxLen : \E c \in [1..n -> EventChoices] :
         log = [i \in 1..n |-> Event(c[i], i)]
    /\ start \in StartTimes
    /\ sn = <<>>
    /\ Idle

\* get_newscale_coordinates on a log of MaxCapLen - 1 or MaxCapLen devices
InitCap ==
    /\ pc = "coverage"
    /\ ret = "select"
    /\ \E n \in {MaxCapLen - 1, MaxCapLen} : \E t \in [1..n -> CapTimes] :
         \E z \in CapZTexts :
           log = [i \in 1..n |-> CapEvent(t[i], z, i)]
    /\ start \in StartTimes
    /\ sn = <<>>
    /\ Idle

\* is_z_inverted on at most MaxReadings readings
InitDetect ==
    /\ pc = "is_z_inverted"
    /\ ret = "returned"
    /\ log = <<>>
    /\ start = 0
    /\ sn \in ClassSerials
    /\ \E n \in 0..MaxReadings : z_values \in [1..n -> Readings]
    /\ z_inverted = FALSE
    /\ df = <<>>
    /\ probes = <<>>
    /\ exc = "none"

Init == InitResolve

(***************************************************************************)
(* get_newscale_coordinates, lines 94-182.                                 *)
(***************************************************************************)
Raise(kind) ==
    /\ pc' = "raised"
    /\ exc' = kind

\* line 129: df.is_empty() or start.dt.date() not in df["last_movement_dt"].dt.date()
NoDataForDate_empty_only(l, s) == l = <<>>

NoDataForDate(l, s) ==
    \/ l = <<>>
    \/ DateOf(s) \notin {DateOf(l[i].last_movement_dt) : i \in DOMAIN l}

\* lines 125-132
CoverageCheck ==
    /\ pc = "coverage"
    /\ IF NoDataForDate(log, start)
       THEN Raise("IndexError")
       ELSE pc' = "recent" /\ exc' = exc
    /\ UNCHANGED <<ret, log, start, sn, z_values, z_inverted, df, probes>>

\* the filter of lines 134-137
InRecentWindow_inclusive(e, s) ==
    DateOf(e.last_movement_dt) >= DateMinusHours(DateOf(s), WindowHours)

InRecentWindow(e, s) ==
    DateOf(e.last_movement_dt) > DateMinusHours(DateOf(s), WindowHours)

\* lines 134-138: recent_z_values; the strict cast raises on a text that is no number
RecentWindow ==
    /\ pc = "recent"
    /\ LET recent_df == SelectSeq(log, LAMBDA e : InRecentWindow(e, start))
           stripped == [i \in DOMAIN recent_df |-> StripChars(recent_df[i].z)]
       IN  IF \E i \in DOMAIN stripped : ~IsNumeric(stripped[i])
           THEN Raise("InvalidOperationError") /\ z_values' = z_values
           ELSE /\ z_values' = [i \in DOMAIN stripped |-> Cast(stripped[i])]
                /\ pc' = "is_z_inverted"
                /\ exc' = exc
    /\ UNCHANGED <<ret, log, start, sn, z_inverted, df, probes>>

\* line 139, and a direct call: the body of is_z_inverted
IsZInverted ==
    /\ pc = "is_z_inverted"
    /\ z_inverted' = is_z_inverted(z_values)
    /\ pc' = ret
    /\ UNCHANGED <<ret, log, start, sn, z_values, df, probes, exc>>

\* the rows of the log that line 142 keeps: movement < start.dt
Prior(l, s) == {i \in DOMAIN l : l[i].last_movement_dt < s}

\* .group_by(serial_number): the keys are the device_name cells as logged
GroupKeys(l, s) == {l[i].device_name : i \in Prior(l, s)}

\* one group's rows
Group(l, s, k) == {i \in Prior(l, s) : l[i].device_name = k}

\* .agg(pl.all().sort_by(movement).last()): a row of the group with the greatest
\* movement; sort_by does not keep the order of equal elements, so any of them
GroupLast(l, s, k) ==
    {i \in Group(l, s, k) :
        \A j \in Group(l, s, k) : l[j].last_movement_dt <= l[i].last_movement_dt}

\* the possible results of the aggregation: one row per group
RECURSIVE Aggregations(_, _, _)
Aggregations(l, s, K) ==
    IF K = {} THEN {{}}
    ELSE LET k == CHOOSE k \in K : TRUE
         IN  {A \cup {i} : A \in Aggregations(l, s, K \ {k}), i \in GroupLast(l, s, k)}

\* .top_k(6, by=movement): the rows it may keep; ties at the cut are broken
\* in no stated way
TopK_any(l, A) ==
    {R \in SUBSET A : Cardinality(R) = IF Cardinality(A) < TopKRows
                                        THEN Cardinality(A) ELSE TopKRows}

TopK(l, A) ==
    {R \in SUBSET A :
        /\ Cardinality(R) = IF Cardinality(A) < TopKRows THEN Cardinality(A) ELSE TopKRows
        /\ \A d \in A \ R, r \in R : l[d].last_movement_dt <= l[r].last_movement_dt}

\* the kept rows as a table, greatest movement first (equal movements by position in
\* the log). The order among rows of equal movement is not stated by top_k; the only
\* later step that depends on the row order is the final sort, which takes every order
\* of rows with equal keys.
RECURSIVE AsTable(_, _)
AsTable(l, R) ==
    IF R = {} THEN <<>>
    ELSE LET i == CHOOSE i \in R : \A j \in R :
                     \/ l[j].last_movement_dt < l[i].last_movement_dt
                     \/ l[j].last_movement_dt = l[i].last_movement_dt /\ i <= j
         IN  <<l[i]>> \o AsTable(l, R \ {i})

\* lines 141-147
Select ==
    /\ pc = "select"
    /\ \E A \in Aggregations(log, start, GroupKeys(log, start)) :
         \E R \in TopK(log, A) :
           df' = AsTable(log, R)
    /\ pc' = "normalize"
    /\ UNCHANGED <<ret, log, start, sn, z_values, z_inverted, probes, exc>>

\* f"probe{v}", line 158
ProbeName ==
    ("A" :> "probeA") @@ ("B" :> "probeB") @@ ("C" :> "probeC") @@
    ("D" :> "probeD") @@ ("E" :> "probeE") @@ ("F" :> "probeF")

\* Series.replace(mapping): a value that is no key of the mapping stays as it is
Replace(name) ==
    IF IsKey(name) THEN <<ProbeName[SERIAL_NUM_TO_PROBE_LETTER[name[1]]]>> ELSE name

\* lines 149-159: trim the serial numbers, cast x, y, z (the virtual columns are not
\* in the table any more), build the electrode_group_name column
Normalize ==
    /\ pc = "normalize"
    /\ LET stripped == [i \in DOMAIN df |->
                          [df[i] EXCEPT !.device_name = StripChars(@),
                                        !.x = StripChars(@),
                                        !.y = StripChars(@),
                                        !.z = StripChars(@)]]
       IN  IF \E i \in DOMAIN df :
                 ~IsNumeric(stripped[i].x) \/ ~IsNumeric(stripped[i].y)
                   \/ ~IsNumeric(stripped[i].z)
           THEN Raise("InvalidOperationError") /\ UNCHANGED <<df, probes>>
           ELSE /\ df' = [i \in DOMAIN df |->
                            [stripped[i] EXCEPT !.x = Cast(@), !.y = Cast(@), !.z = Cast(@)]]
                /\ probes' = [i \in DOMAIN df |-> Replace(stripped[i].device_name)]
                /\ pc' = "correct"
                /\ exc' = exc
    /\ UNCHANGED <<ret, log, start, sn, z_values, z_inverted>>

\* lines 161-166: the loop over the rows; get_z_travel is called only when
\* z_inverted, and its raise ends the call
Correct ==
    /\ pc = "correct"
    /\ IF z_inverted /\ \E i \in DOMAIN df : get_z_travel_raises(df[i].device_name)
       THEN Raise("ValueError") /\ df' = df
       ELSE /\ df' = [i \in DOMAIN df |->
                        IF z_inverted
                        THEN [df[i] EXCEPT !.z = CorrectZ(@, df[i].device_name)]
                        ELSE df[i]]
            /\ pc' = "finish"
            /\ exc' = exc
    /\ UNCHANGED <<ret, log, start, sn, z_values, z_inverted, probes>>

\* the order polars gives strings: by code point, so "SN..." comes before "probe..."
LexOrder ==
    <<"SN99999", "probeA", "probeB", "probeC", "probeD", "probeE", "probeF">>

LexRank(name) == CHOOSE r \in DOMAIN LexOrder : LexOrder[r] = name[1]

\* .sort(pl.col("electrode_group_name")): every arrangement of the rows with the
\* keys ascending; sort does not keep the order of rows with equal keys
Sort_none(rows, I) == {rows}

RECURSIVE SortFrom(_, _)
SortFrom(rows, I) ==
    IF I = {} THEN {<<>>}
    ELSE LET least == {m \in I : \A o \in I : LexRank(rows[m].electrode_group_name)
                                                <= LexRank(rows[o].electrode_group_name)}
         IN  UNION {{<<rows[i]>> \o rest : rest \in SortFrom(rows, I \ {i})} : i \in least}

Sort(rows, I) == SortFrom(rows, I)

\* lines 168-182: last_movement_time, the electrode_group_name column, the sort,
\* and last_movement_dt as text
Finish ==
    /\ pc = "finish"
    /\ LET rows == [i \in DOMAIN df |->
                      [electrode_group_name |-> probes[i],
                       last_movement_dt |-> AsStr(df[i].last_movement_dt),
                       device_name |-> df[i].device_name,
                       x |-> df[i].x, y |-> df[i].y, z |-> df[i].z,
                       last_movement_time |-> df[i].last_movement_dt - start]]
       IN  df' \in Sort(rows, DOMAIN rows)
    /\ pc' = "done"
    /\ UNCHANGED <<ret, log, start, sn, z_values, z_inverted, probes, exc>>

Next ==
    \/ CoverageCheck
    \/ RecentWindow
    \/ IsZInverted
    \/ Select
    \/ Normalize
    \/ Correct
    \/ Finish

Spec == Init /\ [][Next]_vars

SpecCap == InitCap /\ [][Next]_vars

NextDetect == IsZInverted

SpecDetect == InitDetect /\ [][NextDetect]_vars

(***************************************************************************)
(* Vocabulary of the properties.                                           *)
(***************************************************************************)
\* get_newscale_coordinates has returned; df is the table it returned
Returned == pc = "done"

\* the device of an event: its identifier without the surrounding whitespace
DeviceOf(e) == StripChars(e.device_name)

\* the number a coordinate text of the log stands for
RawNum(text) == NumeralValue[StripChars(text)[1]]

\* the events of device d strictly before the reference time
EventsBefore(d) ==
    {i \in DOMAIN log : DeviceOf(log[i]) = d /\ log[i].last_movement_dt < start}

\* the devices with at least one event strictly before the reference time
DevicesBefore == {DeviceOf(log[i]) : i \in {j \in DOMAIN log : log[j].last_movement_dt < start}}

\* the time of the most recent prior movement of device d
LatestBefore(d) == Max({log[i].last_movement_dt : i \in EventsBefore(d)})

\* the devices of the returned table
DevicesReturned == {df[r].device_name : r \in DOMAIN df}

\* the travel range the registry gives a known device
TravelRangeFor(d) == IF d[1] \in SHORT_TRAVEL_SERIAL_NUMBERS THEN 6000 ELSE 15000

\* the z a row must show for raw z
ExpectedZ(d, raw) == IF z_inverted THEN TravelRangeFor(d) - raw ELSE raw

\* row r of the table is event i of the log, resolved
RowIsEvent(r, i) ==
    /\ df[r].device_name = DeviceOf(log[i])
    /\ df[r].last_movement_dt = AsStr(log[i].last_movement_dt)
    /\ df[r].x = RawNum(log[i].x)
    /\ df[r].y = RawNum(log[i].y)
    /\ df[r].z = ExpectedZ(df[r].device_name, RawNum(log[i].z))

(***************************************************************************)
(* C1: every row of a returned table is its device's event with the        *)
(* greatest timestamp among that device's events strictly before the       *)
(* reference time, and a device with no event before the reference time    *)
(* has no row.                                                             *)
(***************************************************************************)
C1_MostRecentPrior ==
    Returned =>
        /\ \A r \in DOMAIN df :
             \E i \in EventsBefore(df[r].device_name) :
                /\ log[i].last_movement_dt = LatestBefore(df[r].device_name)
                /\ RowIsEvent(r, i)
        /\ \A i \in DOMAIN log :
             EventsBefore(DeviceOf(log[i])) = {} => DeviceOf(log[i]) \notin DevicesReturned

\* every device of the log is written the same way in all of its events
ConsistentNames ==
    \A i, j \in DOMAIN log :
        DeviceOf(log[i]) = DeviceOf(log[j]) => log[i].device_name = log[j].device_name

\* C1 on logs that write each device one way: there it holds
C1_ConsistentNames == ConsistentNames => C1_MostRecentPrior

C4_UnknownDeviceFails ==
    Returned => \A r \in DOMAIN df : IsKey(df[r].device_name)

(***************************************************************************)
(* C5: the call fails with the no-coverage error (IndexError) exactly when *)
(* the log is empty or no event is dated on the reference date, and it     *)
(* fails so before anything is selected, parsed or corrected.              *)
(***************************************************************************)
NoCoverage ==
    \/ Len(log) = 0
    \/ \A i \in DOMAIN log : log[i].last_movement_dt \div DayLen # start \div DayLen

C5_NoCoverage ==
    (ret = "select" /\ pc # "coverage") =>
        /\ exc = "IndexError" <=> NoCoverage
        /\ exc = "IndexError" =>
              pc = "raised" /\ df = <<>> /\ z_values = <<>> /\ probes = <<>>

\* C5 witness: the error raised on a log that holds a z that is no number
C5_Witness ==
    /\ pc = "raised"
    /\ exc = "IndexError"
    /\ \E i \in DOMAIN log : ~IsNumeric(StripChars(log[i].z))

(***************************************************************************)
(* C6: no two rows of a returned table have the same trimmed device        *)
(* identifier, and the table has at most as many rows as there are         *)
(* distinct trimmed identifiers with an event before the reference time.   *)
(***************************************************************************)
C6_OneRowPerDevice ==
    Returned =>
        /\ \A r1, r2 \in DOMAIN df : df[r1].device_name = df[r2].device_name => r1 = r2
        /\ Len(df) <= Cardinality(DevicesBefore)

\* C6 on logs that write each device one way: there it holds
C6_ConsistentNames == ConsistentNames => C6_OneRowPerDevice

(***************************************************************************)
(* C7: the rows of a returned table of known devices are in ascending      *)
(* order of probe label.                                                   *)
(***************************************************************************)
LetterIndex ==
    ("A" :> 1) @@ ("B" :> 2) @@ ("C" :> 3) @@ ("D" :> 4) @@ ("E" :> 5) @@ ("F" :> 6)

LabelIndex(r) == LetterIndex[SERIAL_NUM_TO_PROBE_LETTER[df[r].device_name[1]]]

AllKnown == \A r \in DOMAIN df : IsKey(df[r].device_name)

\* C7 as stated: ascending and no label twice, here for tables whose rows are of
\* distinct devices
C7_SortedUniqueLabels ==
    (/\ Returned
     /\ AllKnown
     /\ \A r1, r2 \in DOMAIN df : df[r1].device_name = df[r2].device_name => r1 = r2) =>
        \A r1, r2 \in DOMAIN df : r1 < r2 => LabelIndex(r1) < LabelIndex(r2)

\* C7 amended: ascending, a label may occur twice; each row's label is "probe" and
\* the letter the registry gives its device
C7_SortedLabels ==
    (Returned /\ AllKnown) =>
        /\ \A r1, r2 \in DOMAIN df : r1 < r2 => LabelIndex(r1) <= LabelIndex(r2)
        /\ \A r \in DOMAIN df :
              df[r].electrode_group_name
                 = <<ProbeName[SERIAL_NUM_TO_PROBE_LETTER[df[r].device_name[1]]]>>

\* C7 witness: a table of two labels in which the row that the sort put first is
\* of the device that moved earlier (top_k had put it last)
C7_Witness ==
    /\ Returned
    /\ AllKnown
    /\ \E r1, r2 \in DOMAIN df :
          /\ r1 < r2
          /\ LabelIndex(r1) < LabelIndex(r2)
          /\ df[r1].last_movement_time < df[r2].last_movement_time

(***************************************************************************)
(* C8: a returned table has at most 6 rows; when more than 6 devices have  *)
(* an event before the reference time it has 6, and no device without a    *)
(* row moved later (before the reference time) than a device with a row.   *)
(***************************************************************************)
C8_Cap ==
    Returned =>
        /\ Len(df) <= 6
        /\ Cardinality(DevicesBefore) > 6 => Len(df) = 6
        /\ \A d \in DevicesBefore \ DevicesReturned, r \in DevicesReturned :
              LatestBefore(d) <= LatestBefore(r)

\* C8 witness: a table from a log of more than 6 devices, one of them dropped though it moved
\* as late as a device that was kept
C8_Witness ==
    /\ Returned
    /\ Cardinality(DevicesBefore) > 6
    /\ \E d \in DevicesBefore \ DevicesReturned, r \in DevicesReturned :
          LatestBefore(d) = LatestBefore(r)
    /\ \E d \in DevicesBefore \ DevicesReturned, r \in DevicesReturned :
          LatestBefore(d) < LatestBefore(r)

(***************************************************************************)
(* C3: is_z_inverted is true exactly when, the readings rounded to the     *)
(* nearest multiple of 100, more readings equal the limit than equal 0,    *)
(* the limit being 15000 if a rounded reading equals 15000 and 6000        *)
(* otherwise; equal counts give false.  (A reading half way between two    *)
(* multiples of 100 goes to the even one, as numpy rounds.)                *)
(***************************************************************************)
\* the multiples of 100 next to v
Around(v) == {100 * (v \div 100), 100 * ((v \div 100) + 1)}

Nearest100(v) ==
    CHOOSE m \in Around(v) :
        \A o \in Around(v) :
            LET dm == IF m > v THEN m - v ELSE v - m
                do == IF o > v THEN o - v ELSE v - o
            IN  dm < do \/ (dm = do /\ (o = m \/ (m \div 100) % 2 = 0))

NumberAt(k) == Cardinality({i \in DOMAIN z_values : Nearest100(z_values[i]) = k})

Limit == IF \E i \in DOMAIN z_values : Nearest100(z_values[i]) = 15000 THEN 15000 ELSE 6000

C3_Detector ==
    (pc = "returned") => (z_inverted <=> NumberAt(Limit) > NumberAt(0))

\* C3 witness: true returned though a reading rounds to 0, the limit being met
\* only by readings that round to it
C3_Witness ==
    /\ pc = "returned"
    /\ z_inverted
    /\ NumberAt(0) > 0
    /\ Limit \notin {z_values[i] : i \in DOMAIN z_values}

\* C3, the tie: false returned on equal, nonzero counts
C3_WitnessTie ==
    /\ pc = "returned"
    /\ ~z_inverted
    /\ NumberAt(0) > 0
    /\ NumberAt(0) = NumberAt(Limit)

(***************************************************************************)
(* C9: the readings handed to the detector, and so the flag.               *)
(***************************************************************************)
\* the detector has been given the readings of the log (and, past
\* "is_z_inverted", has answered)
WindowTaken ==
    /\ ret = "select"
    /\ pc \in {"is_z_inverted", "select", "normalize", "correct", "finish", "done"}

Answered == ret = "select" /\ pc \in {"select", "normalize", "correct", "finish", "done"}

RefDate == start \div DayLen

\* the z of the events dated from lo to hi, in the order of the log
ZDated(lo, hi) ==
    LET in == SelectSeq(log, LAMBDA e : /\ e.last_movement_dt \div DayLen >= lo
                                        /\ e.last_movement_dt \div DayLen <= hi)
    IN  [i \in DOMAIN in |-> RawNum(in[i].z)]

AllZNumeric == \A i \in DOMAIN log : IsNumeric(StripChars(log[i].z))

LastDate == Max({RefDate} \cup {log[i].last_movement_dt \div DayLen : i \in DOMAIN log})

\* C9 as stated: the flag is the detector's answer on the z of the events dated
\* from the day before the reference date to the reference date
C9_WindowDayBeforeToReference ==
    (Answered /\ AllZNumeric) => (z_inverted <=> is_z_inverted(ZDated(RefDate - 1, RefDate)))

\* C9 amended: the readings are the z of the events dated on the reference date
\* or later, and the flag is the detector's answer on them
C9_WindowFromReferenceDate ==
    /\ (WindowTaken /\ AllZNumeric) => z_values = ZDated(RefDate, LastDate)
    /\ (Answered /\ AllZNumeric) => (z_inverted <=> is_z_inverted(ZDated(RefDate, LastDate)))

\* C9 witness: a flag set by an event dated after the reference date
C9_Witness ==
    /\ Returned
    /\ AllZNumeric
    /\ z_inverted
    /\ ~is_z_inverted(ZDated(RefDate, RefDate))

\* C9, the lower boundary: a flag left unset by an event dated the day before
\* the reference date
C9_WitnessDayBefore ==
    /\ Returned
    /\ AllZNumeric
    /\ ~z_inverted
    /\ is_z_inverted(ZDated(RefDate - 1, LastDate))

(***************************************************************************)
(* C10: readings of one travel class (multiples of 100 from 0 to the       *)
(* range L of the class) on which is_z_inverted is true, each replaced by  *)
(* L - z as the axis correction does.                                      *)
(***************************************************************************)
InClass ==
    \A i \in DOMAIN z_values :
        z_values[i] % 100 = 0 /\ z_values[i] >= 0 /\ z_values[i] <= get_z_travel(sn)

Replaced == [i \in DOMAIN z_values |-> CorrectZ(z_values[i], sn)]

Has(v) == \E i \in DOMAIN z_values : z_values[i] = v

Times_(v) == Cardinality({i \in DOMAIN z_values : z_values[i] = v})

\* C10 as stated: is_z_inverted is false on the replaced readings
C10_SelfConsistent ==
    (pc = "returned" /\ InClass /\ z_inverted) => ~is_z_inverted(Replaced)

\* C10 amended: it is false for the short class; for the long class it is false exactly
\* when the readings hold 15000 and either hold 0 or hold 9000 no more often than
\* 15000, or hold none of 0, 9000 and 15000
C10_SelfConsistentWhere ==
    (pc = "returned" /\ InClass /\ z_inverted) =>
        (~is_z_inverted(Replaced) <=>
            \/ get_z_travel(sn) = 6000
            \/ Has(15000) /\ (Has(0) \/ Times_(9000) <= Times_(15000))
            \/ ~Has(15000) /\ ~Has(0) /\ ~Has(9000))

\* C10 witness: short-class readings found inverted
C10_Witness ==
    /\ pc = "returned"
    /\ InClass
    /\ z_inverted
    /\ get_z_travel(sn) = 6000
    /\ Has(0)

\* C10, the long class: readings found inverted, and found so again once replaced
C10_WitnessLong ==
    /\ pc = "returned"
    /\ InClass
    /\ z_inverted
    /\ get_z_travel(sn) = 15000
    /\ is_z_inverted(Replaced)

====
